---- MODULE Spec2Model ----
(***************************************************************************)
(* Steganography / hidden payload detector (script.js).                    *)
(*                                                                         *)
(* The module models the "change" handler of the file input, the           *)
(* asynchronous steps of analyzeImage, and the pure analysers it calls     *)
(* (analyzeTail, analyzeLSB, findSignature, printableFraction,             *)
(* shannonEntropy).  Bytes are integers 0..255, a Uint8Array is a          *)
(* sequence of bytes read with zero-based offsets through At.              *)
(***************************************************************************)
EXTENDS Integers, Sequences, FiniteSets, TLC

VARIABLES
    handlers,   \* one record per started invocation of the change handler
    statusEl,   \* statusEl.innerHTML
    reportEl,   \* reportEl.style.display and reportEl.innerHTML
    arg,        \* argument of the analyser function under direct call
    ret         \* its return value, None until it has returned

vars == <<handlers, statusEl, reportEl, arg, ret>>

-----------------------------------------------------------------------------
(* JavaScript values *)

\* An optional value: not yet assigned / assigned.
None == <<>>
Some(x) == <<x>>

\* null (findSignature's "no match").
Null == "null"

\* Reading a typed array outside its range yields undefined, which is
\* strictly equal to no byte value.
Undefined == -1

At(view, i) == IF i >= 0 /\ i < Len(view) THEN view[i + 1] ELSE Undefined

\* view.slice(from)
Slice(view, from) == SubSeq(view, from + 1, Len(view))

\* A JavaScript number that may be NaN.
Num(v) == [nan |-> FALSE, val |-> v]
NaN == [nan |-> TRUE, val |-> 0]

\* Math.round(p / q) for p >= 0, q > 0: the nearest integer, halves upward.
RoundDiv(p, q) == (2 * p + q) \div (2 * q)

Min(a, b) == IF a < b THEN a ELSE b
Abs(a) == IF a < 0 THEN -a ELSE a

\* Math.min(100, x)
MathMin100(x) == IF x.nan THEN NaN ELSE Num(Min(100, x.val))

\* x >= k in JavaScript: false when x is NaN.
NumGE(x, k) == ~x.nan /\ x.val >= k

\* n copies of byte b.
Rep(b, n) == [i \in 1..n |-> b]

-----------------------------------------------------------------------------
(* findSignature *)

sigs ==
    << [name |-> "ZIP", bytes |-> <<80, 75, 3, 4>>],
       [name |-> "APK", bytes |-> <<80, 75, 3, 4>>],
       [name |-> "PDF", bytes |-> <<37, 80, 68, 70>>],
       [name |-> "RAR", bytes |-> <<82, 97, 114, 33>>],
       [name |-> "EXE", bytes |-> <<77, 90>>] >>

\* The inner j loop: every byte of sig equals the data byte at i + j.
SigMatchAt(data, i, sig) ==
    \A j \in 0..(Len(sig.bytes) - 1) : At(data, i + j) = sig.bytes[j + 1]

\* The "for (let sig of sigs)" loop at offset i, from table entry k on.
RECURSIVE SigLoop(_, _, _)
SigLoop(data, i, k) ==
    IF k > Len(sigs) THEN Null
    ELSE IF SigMatchAt(data, i, sigs[k]) THEN sigs[k].name
    ELSE SigLoop(data, i, k + 1)

\* The outer loop "for (let i = lo; i <= hi; i++)": the first offset, in
\* ascending order, at which the loop over sigs returns a name ends the scan.
\* (The range is searched by halves, lower half first.)
RECURSIVE OffsetLoop(_, _, _)
OffsetLoop(data, lo, hi) ==
    IF hi < lo THEN Null
    ELSE IF lo = hi THEN SigLoop(data, lo, 1)
    ELSE LET mid == (lo + hi) \div 2
             r == OffsetLoop(data, lo, mid)
         IN  IF r # Null THEN r ELSE OffsetLoop(data, mid + 1, hi)

\* A faulty variant: the scan runs up to the last offset a four-byte entry fits at.
findSignatureNoSlack(data) == OffsetLoop(data, 0, Len(data) - 4)

\* i < data.length - 8
findSignature(data) == OffsetLoop(data, 0, Len(data) - 9)

-----------------------------------------------------------------------------
(* printableFraction and shannonEntropy *)

\* count / data.length as a fraction; 0 for empty data.
printableFraction(data) ==
    LET count == Cardinality({i \in 1..Len(data) : data[i] >= 32 /\ data[i] <= 126})
    IN  IF Len(data) # 0 THEN [num |-> count, den |-> Len(data)]
        ELSE [num |-> 0, den |-> 1]

RECURSIVE FloorLog2(_)
FloorLog2(x) == IF x < 2 THEN 0 ELSE 1 + FloorLog2(x \div 2)

RECURSIVE Pow2(_)
Pow2(k) == IF k = 0 THEN 1 ELSE 2 * Pow2(k - 1)

\* The fractional bits of log2 of a mantissa m in [1, 2), m held with 14
\* fractional bits: square, and emit a 1 when the square reaches 2.
RECURSIVE Log2Frac(_, _)
Log2Frac(m, k) ==
    IF k = 0 THEN 0
    ELSE LET sq == (m * m) \div 16384
         IN  IF sq >= 32768 THEN Pow2(k - 1) + Log2Frac(sq \div 2, k - 1)
             ELSE Log2Frac(sq, k - 1)

\* Math.log2(x) for an integer x in 1..65535, in units of 1/4096 (exact for
\* powers of two, within 1/1024 otherwise).
Log2Fix(x) ==
    LET e == FloorLog2(x)
    IN  e * 4096 + Log2Frac((x * 16384) \div Pow2(e), 12)

\* freq[v]: the number of occurrences of byte value v.
Freq(bytes, v) == Cardinality({i \in 1..Len(bytes) : bytes[i] = v})

\* The sum of c * log2(c), in units of 1/4096, over the counts c = freq[v] of
\* the byte values v in lo..hi that occur ("for (let c of freq) if (c)").
RECURSIVE SumCLogC(_, _, _)
SumCLogC(bytes, lo, hi) ==
    IF lo = hi
    THEN LET c == Freq(bytes, lo) IN IF c # 0 THEN c * Log2Fix(c) ELSE 0
    ELSE LET mid == (lo + hi) \div 2
         IN  SumCLogC(bytes, lo, mid) + SumCLogC(bytes, mid + 1, hi)

\* H as a fraction with n = bytes.length || 1: -sum p log2 p, p = c / n, equals
\* log2 n - (1/n) sum c log2 c.
shannonEntropy(bytes) ==
    LET n == IF Len(bytes) # 0 THEN Len(bytes) ELSE 1
    IN  [num |-> n * Log2Fix(n) - SumCLogC(bytes, 0, 255), den |-> n * 4096]

\* x > p / q for a fraction x with positive denominators.
FracGT(x, p, q) == x.num * q > p * x.den

-----------------------------------------------------------------------------
(* analyzeTail *)

\* (x * 100).toFixed(1) and x.toFixed(2) of a fraction x, as the integer
\* number of tenths resp. hundredths printed.
PercentTenths(x) == RoundDiv(1000 * x.num, x.den)
Hundredths(x) == RoundDiv(100 * x.num, x.den)

NoTailSummary == [text |-> "No extra data found after image end."]

analyzeTail(tail) ==
    IF Len(tail) = 0 THEN [score |-> 0, summary |-> NoTailSummary]
    ELSE
    LET printable == printableFraction(tail)
        entropy == shannonEntropy(tail)
        sig == findSignature(tail)
        score == (IF Len(tail) > 100 THEN 25 ELSE 0)
               + (IF FracGT(printable, 3, 10) THEN 25 ELSE 0)
               + (IF FracGT(entropy, 13, 2) THEN 25 ELSE 0)
               + (IF sig # Null THEN 30 ELSE 0)
    IN  [score |-> Min(100, score),
         summary |-> [len |-> Len(tail), printable |-> PercentTenths(printable),
                      entropy |-> Hundredths(entropy), sig |-> sig]]

-----------------------------------------------------------------------------
(* analyzeLSB *)

\* data[k] & 1; undefined & 1 is 0.
LowBit(data, k) == IF At(data, k) = Undefined THEN 0 ELSE At(data, k) % 2

\* The two nested loops: i over 0, 4, 8, ... below data.length, j over the
\* first `channels` samples of the pixel at i.  Returns <<lsb0, lsb1>>.
RECURSIVE LsbLoop(_, _, _, _, _)
LsbLoop(data, channels, i, lsb0, lsb1) ==
    IF ~(i < Len(data)) THEN <<lsb0, lsb1>>
    ELSE LET ones == Cardinality({j \in 0..(channels - 1) : LowBit(data, i + j) = 1})
         IN  LsbLoop(data, channels, i + 4, lsb0 + (channels - ones), lsb1 + ones)

\* Lines 122-126, from the two counters; the summary holds (1 - balance) in
\* hundredths, as toFixed(2) prints it.
LsbInfo(lsb0, lsb1) ==
    LET total == lsb0 + lsb1
        \* (1 - balance) * 100 = 100 * (total - |lsb0 - lsb1|) / total; 0 / 0 is NaN
        even == IF total = 0 THEN NaN
                ELSE Num(RoundDiv(100 * (total - Abs(lsb0 - lsb1)), total))
    IN  [score |-> MathMin100(even),
         summary |-> [balance |-> even, lsb0 |-> lsb0, lsb1 |-> lsb1]]

\* A faulty variant: the alpha sample is counted too (j < 4).
analyzeLSBWithAlpha(imageData) ==
    LET c == LsbLoop(imageData, 4, 0, 0, 0) IN LsbInfo(c[1], c[2])

analyzeLSB(imageData) ==
    LET c == LsbLoop(imageData, 3, 0, 0, 0) IN LsbInfo(c[1], c[2])

-----------------------------------------------------------------------------
(* analyzeImage: format detection, end-of-image search, tail, combination *)

isPNG(view) ==
    At(view, 0) = 137 /\ At(view, 1) = 80 /\ At(view, 2) = 78 /\ At(view, 3) = 71

isJPG(view) == At(view, 0) = 255 /\ At(view, 1) = 216 /\ At(view, 2) = 255

JpgMarkerAt(view, i) == At(view, i) = 255 /\ At(view, i + 1) = 217

PngMarkerAt(view, i) ==
    /\ At(view, i + 4) = 73
    /\ At(view, i + 5) = 69
    /\ At(view, i + 6) = 78
    /\ At(view, i + 7) = 68

\* for (let i = hi; i >= lo; i--): the first i, in descending order, with
\* FF D9 at i sets eofIndex = i + 2 and breaks; -1 when there is none.
\* (The range is searched by halves, upper half first.)
RECURSIVE JpgLoop(_, _, _)
JpgLoop(view, lo, hi) ==
    IF hi < lo THEN -1
    ELSE IF lo = hi THEN (IF JpgMarkerAt(view, hi) THEN hi + 2 ELSE -1)
    ELSE LET mid == (lo + hi + 1) \div 2
             r == JpgLoop(view, mid, hi)
         IN  IF r # -1 THEN r ELSE JpgLoop(view, lo, mid - 1)

\* A faulty variant: the four checksum bytes after the tag are not skipped.
RECURSIVE PngLoopNoChecksum(_, _, _)
PngLoopNoChecksum(view, lo, hi) ==
    IF hi < lo THEN -1
    ELSE IF lo = hi THEN (IF PngMarkerAt(view, hi) THEN hi + 8 ELSE -1)
    ELSE LET mid == (lo + hi + 1) \div 2
             r == PngLoopNoChecksum(view, mid, hi)
         IN  IF r # -1 THEN r ELSE PngLoopNoChecksum(view, lo, mid - 1)

\* for (let i = hi; i >= lo; i--): the first i, in descending order, with
\* "IEND" at i + 4 sets eofIndex = i + 12 and breaks.
RECURSIVE PngLoop(_, _, _)
PngLoop(view, lo, hi) ==
    IF hi < lo THEN -1
    ELSE IF lo = hi THEN (IF PngMarkerAt(view, hi) THEN hi + 12 ELSE -1)
    ELSE LET mid == (lo + hi + 1) \div 2
             r == PngLoop(view, mid, hi)
         IN  IF r # -1 THEN r ELSE PngLoop(view, lo, mid - 1)

\* Ascending scans, for the faulty variant below: the marker closest to the
\* start.
RECURSIVE JpgLoopUp(_, _, _)
JpgLoopUp(view, lo, hi) ==
    IF hi < lo THEN -1
    ELSE IF lo = hi THEN (IF JpgMarkerAt(view, lo) THEN lo + 2 ELSE -1)
    ELSE LET mid == (lo + hi) \div 2
             r == JpgLoopUp(view, lo, mid)
         IN  IF r # -1 THEN r ELSE JpgLoopUp(view, mid + 1, hi)

RECURSIVE PngLoopUp(_, _, _)
PngLoopUp(view, lo, hi) ==
    IF hi < lo THEN -1
    ELSE IF lo = hi THEN (IF PngMarkerAt(view, lo) THEN lo + 12 ELSE -1)
    ELSE LET mid == (lo + hi) \div 2
             r == PngLoopUp(view, lo, mid)
         IN  IF r # -1 THEN r ELSE PngLoopUp(view, mid + 1, hi)

\* A faulty variant: the end marker is searched from the start of the buffer.
eofIndexForward(view) ==
    IF isJPG(view) THEN JpgLoopUp(view, 0, Len(view) - 2)
    ELSE IF isPNG(view) THEN PngLoopUp(view, 0, Len(view) - 12)
    ELSE -1

\* Lines 44-58.
eofIndex(view) ==
    IF isJPG(view) THEN JpgLoop(view, 0, Len(view) - 2)
    ELSE IF isPNG(view) THEN PngLoop(view, 0, Len(view) - 12)
    ELSE -1

\* Lines 61-64.
tailOf(view) ==
    IF eofIndex(view) > 0 /\ eofIndex(view) < Len(view)
    THEN Slice(view, eofIndex(view))
    ELSE <<>>

SafeMessage == "Image appears safe."
WarnMessage == "Warning: Possible hidden content detected."
AlertMessage == "ALERT: Suspicious hidden data likely present!"

\* A faulty variant: the two weights are exchanged.
CombinedScoreSwapped(t, l) ==
    IF l.nan THEN NaN ELSE MathMin100(Num(RoundDiv(4 * t + 6 * l.val, 10)))

\* Math.min(100, Math.round(t * 0.6 + l * 0.4)), t an integer, l possibly NaN.
CombinedScore(t, l) ==
    IF l.nan THEN NaN ELSE MathMin100(Num(RoundDiv(6 * t + 4 * l.val, 10)))

\* Lines 76-84.
LevelOf(score) ==
    IF NumGE(score, 60) THEN "alert"
    ELSE IF NumGE(score, 30) THEN "warn"
    ELSE "safe"

\* A faulty variant: the alert threshold is exclusive (score > 60).
CombineAlertAbove(tailInfo, lsbInfo) ==
    LET score == CombinedScore(tailInfo.score, lsbInfo.score)
        level == IF NumGE(score, 61) THEN "alert"
                 ELSE IF NumGE(score, 30) THEN "warn"
                 ELSE "safe"
    IN  [level |-> level, score |-> score,
         message |-> IF level = "alert" THEN AlertMessage
                     ELSE IF level = "warn" THEN WarnMessage ELSE SafeMessage,
         tailSummary |-> tailInfo.summary, lsbSummary |-> lsbInfo.summary]

\* Lines 73-92: the result object from the two sub-results.
Combine(tailInfo, lsbInfo) ==
    LET score == CombinedScore(tailInfo.score, lsbInfo.score)
        level == LevelOf(score)
    IN  [level |-> level, score |-> score,
         message |-> IF level = "alert" THEN AlertMessage
                     ELSE IF level = "warn" THEN WarnMessage ELSE SafeMessage,
         tailSummary |-> tailInfo.summary, lsbSummary |-> lsbInfo.summary]

-----------------------------------------------------------------------------
(* Inputs: byte buffers, pixel grids, files *)

\* Bounds of the enumerated inputs.
MaxChanges == 2     \* "change" events with a file in one run
MaxPixels == 2      \* pixels of an enumerated grid
MaxTokens == 4      \* marker / filler tokens after a buffer's prefix
MaxExtraPad == 3    \* filler bytes before a tag in bytes appended to a PNG
MaxExtraTrail == 5  \* filler bytes after it
MaxLead == 10       \* bytes before the first signature of a scanned buffer
MaxGap == 1         \* bytes between its two signatures
MaxTrail == 9       \* bytes after them

PNGSignature == <<137, 80, 78, 71, 13, 10, 26, 10>>
IHDRChunk ==
    <<0, 0, 0, 13, 73, 72, 68, 82, 0, 0, 0, 1, 0, 0, 0, 1, 8, 6, 0, 0, 0,
      31, 21, 196, 137>>
IDATChunk ==
    <<0, 0, 0, 11, 73, 68, 65, 84, 120, 156, 99, 96, 0, 2, 0, 0, 5, 0, 1,
      122, 94, 171, 63>>
\* A tEXt chunk whose text is "IEND marks the end".
TextChunk ==
    <<0, 0, 0, 26, 116, 69, 88, 116, 67, 111, 109, 109, 101, 110, 116, 0,
      73, 69, 78, 68, 32, 109, 97, 114, 107, 115, 32, 116, 104, 101, 32,
      101, 110, 100, 38, 30, 234, 75>>
IENDTag == <<73, 69, 78, 68>>
IENDChunk == <<0, 0, 0, 0>> \o IENDTag \o <<174, 66, 96, 130>>

\* Well-formed PNG files that end with their IEND chunk.
MinimalPNG == PNGSignature \o IHDRChunk \o IDATChunk \o IENDChunk
CommentedPNG == PNGSignature \o IHDRChunk \o TextChunk \o IDATChunk \o IENDChunk
WellFormedPNGs == {MinimalPNG, CommentedPNG}

\* SOI, an empty APP0 segment, EOI.
MinimalJPEG == <<255, 216, 255, 224, 0, 2, 255, 217>>

\* A GIF header: a format the browser decodes and analyzeImage does not know.
GIFHeader == <<71, 73, 70, 56, 57, 97>>

\* 128 distinct byte values, a ZIP local-file header first.
ZipPayload ==
    <<80, 75, 3, 4>>
        \o SelectSeq([i \in 1..128 |-> i - 1], LAMBDA b : b \notin {80, 75, 3, 4})

\* Sequences of at most k tokens, concatenated.
RECURSIVE TokenSeqs(_, _)
TokenSeqs(tokens, k) ==
    IF k = 0 THEN {<<>>}
    ELSE LET shorter == TokenSeqs(tokens, k - 1)
         IN  shorter \cup {b \o t : b \in shorter, t \in tokens}

\* Buffers for the end-marker search: a format prefix, then markers, partial
\* markers and filler.
BufferPrefixes ==
    {<<137, 80, 78, 71>>, <<255, 216, 255>>, <<255, 216>>, <<71, 73, 70, 56>>, <<>>}
BufferTokens == {IENDTag, <<255, 217>>, <<255>>, <<0, 0, 0, 0>>, <<65>>}
MarkerBuffers ==
    {p \o b : p \in BufferPrefixes, b \in TokenSeqs(BufferTokens, MaxTokens)}

\* Printable ASCII bytes appended to a PNG: "A"s, possibly around the text
\* "IEND", in lengths around the 100-byte threshold and of 200 bytes.
ExtraBytes ==
    {Rep(65, n) \o mid \o Rep(65, m) :
        n \in (0..MaxExtraPad) \cup {95, 100, 200},
        mid \in {<<>>, IENDTag},
        m \in 0..MaxExtraTrail}
PNGsWithExtra == {png \o x : png \in WellFormedPNGs, x \in ExtraBytes}

\* Buffers handed to findSignature: two (possibly cut) signatures in filler.
SigTokens ==
    {<<>>, <<80, 75, 3, 4>>, <<37, 80, 68, 70>>, <<82, 97, 114, 33>>, <<77, 90>>,
     <<80, 75, 3>>, <<77>>}
SigInputs ==
    {Rep(0, a) \o s \o Rep(0, b) \o t \o Rep(0, c) :
        a \in 0..MaxLead, s \in SigTokens, b \in 0..MaxGap,
        t \in SigTokens, c \in 0..MaxTrail}

\* RGBA data of n pixels drawn from a set of pixels.
GridsOf(pixels, n) ==
    {[k \in 1..(4 * n) |-> ps[((k - 1) \div 4) + 1][((k - 1) % 4) + 1]] :
        ps \in [1..n -> pixels]}
GridsUpTo(pixels, n) == UNION {GridsOf(pixels, k) : k \in 0..n}

\* Pixels whose samples differ in the low bit and in the upper bits.
SamplePixels ==
    {<<r, g, b, a>> : r \in {0, 1, 254}, g \in {0, 1}, b \in {0, 255}, a \in {0, 255}}
\* Opaque pixels of samples 0 and 1.
OpaquePixels == {<<r, g, b, 255>> : r \in {0, 1}, g \in {0, 1}, b \in {0, 1}}

\* ImageData of a decoded image: getImageData throws on a canvas of no pixels,
\* so at least one pixel.
ImageGrids == GridsUpTo(OpaquePixels, MaxPixels) \ {<<>>}
\* Arguments of a direct call of analyzeLSB.
LSBGrids == GridsUpTo(SamplePixels, MaxPixels)

\* A File: its name, its content, and the ImageData the browser decodes it to
\* (None: the image fails to load).
File(name, bytes, pixels) == [name |-> name, bytes |-> bytes, pixels |-> pixels]

\* The files the user picks from in a run of the page: a PNG with nothing after
\* its IEND chunk, one with a ZIP header and text after it, a JPEG with three
\* bytes after its end marker, and a text file, which does not decode.
Files ==
    {File("clean.png", PNGSignature \o IENDChunk, Some(<<0, 0, 0, 255>>)),
     File("polyglot.png", PNGSignature \o IENDChunk \o <<80, 75, 3, 4>> \o Rep(65, 9),
          Some(<<2, 4, 6, 255, 8, 10, 12, 255>>)),
     File("photo.jpg", MinimalJPEG \o Rep(65, 3), Some(<<0, 1, 0, 255, 1, 0, 1, 255>>)),
     File("notes.txt", Rep(65, 5), None)}

\* Files for the end-marker search; a buffer that starts like no image does not
\* decode.
TailFiles ==
    {File("image", b, IF At(b, 0) \in {137, 255, 71} /\ Len(b) > 2
                      THEN Some(<<0, 0, 0, 255>>) ELSE None) :
        b \in MarkerBuffers \cup PNGsWithExtra}

\* Files for the whole analysis: containers with and without a tail, over
\* every enumerated grid.
SampleTails ==
    {<<>>, <<65>>, <<0, 0, 0>>, Rep(65, 101), <<80, 75, 3, 4>> \o Rep(0, 5), ZipPayload}
ImageBuffers ==
    {c \o t : c \in {MinimalPNG, MinimalJPEG, GIFHeader}, t \in SampleTails}
        \cup {PNGSignature \o IHDRChunk \o IDATChunk, <<255, 216, 255, 224, 0, 2>>}
ImageFiles ==
    {File("image", b, Some(g)) : b \in ImageBuffers, g \in ImageGrids}
        \cup {File("image", b, None) : b \in ImageBuffers}

-----------------------------------------------------------------------------
(* The page: the "change" handler and the asynchronous steps of analyzeImage *)

\* Markup and style the page starts with (index.html).
Initial == [kind |-> "initial"]
Empty == [kind |-> "empty"]
Analyzing(file) == [kind |-> "analyzing", name |-> file.name, size |-> Len(file.bytes)]
Report(file, result) ==
    [kind |-> "report",
     cssClass |-> IF result.level = "alert" THEN "red"
                  ELSE IF result.level = "warn" THEN "yellow" ELSE "green",
     message |-> result.message, score |-> result.score,
     name |-> file.name, size |-> Len(file.bytes),
     tailSummary |-> result.tailSummary, lsbSummary |-> result.lsbSummary]

\* A handler that has run to its first await (line 15).
Started(file) ==
    [file |-> file, pc |-> "readArrayBuffer", ab |-> None, tail |-> None,
     tailInfo |-> None, imageData |-> None, lsbInfo |-> None, result |-> None,
     error |-> None]

Pending(h) == h.pc \in {"readArrayBuffer", "readDataURL", "loadImage"}

\* Lines 8-15: a file is selected.
Change(file) ==
    /\ Len(handlers) < MaxChanges
    /\ handlers' = Append(handlers, Started(file))
    /\ reportEl' = [reportEl EXCEPT !.display = "none"]
    /\ statusEl' = Analyzing(file)
    /\ UNCHANGED <<arg, ret>>

\* Lines 9-10: the selection is empty.
ChangeNoFile == UNCHANGED vars

\* Line 15 resolves; lines 16 and 40-68 run up to the await of readDataURL.
ArrayBufferLoaded(i) ==
    /\ i <= Len(handlers)
    /\ handlers[i].pc = "readArrayBuffer"
    /\ LET view == handlers[i].file.bytes
           tail == tailOf(view)
       IN  handlers' = [handlers EXCEPT ![i].ab = Some(view),
                                        ![i].tail = Some(tail),
                                        ![i].tailInfo = Some(analyzeTail(tail)),
                                        ![i].pc = "readDataURL"]
    /\ UNCHANGED <<statusEl, reportEl, arg, ret>>

\* reader.onerror at line 183: the await at line 15 throws, nothing catches it
\* and the handler's promise rejects.
ArrayBufferError(i) ==
    /\ i <= Len(handlers)
    /\ handlers[i].pc = "readArrayBuffer"
    /\ handlers' = [handlers EXCEPT ![i].pc = "rejected", ![i].error = Some("readArrayBuffer")]
    /\ UNCHANGED <<statusEl, reportEl, arg, ret>>

\* Line 68 resolves; line 69 starts the image load.
DataURLLoaded(i) ==
    /\ i <= Len(handlers)
    /\ handlers[i].pc = "readDataURL"
    /\ handlers' = [handlers EXCEPT ![i].pc = "loadImage"]
    /\ UNCHANGED <<statusEl, reportEl, arg, ret>>

\* reader.onerror at line 192.
DataURLError(i) ==
    /\ i <= Len(handlers)
    /\ handlers[i].pc = "readDataURL"
    /\ handlers' = [handlers EXCEPT ![i].pc = "rejected", ![i].error = Some("readDataURL")]
    /\ UNCHANGED <<statusEl, reportEl, arg, ret>>

\* Line 69 resolves; lines 70-92 and then 19-34 run to the handler's end.
ImageLoaded(i) ==
    /\ i <= Len(handlers)
    /\ handlers[i].pc = "loadImage"
    /\ handlers[i].file.pixels # None
    /\ LET imageData == handlers[i].file.pixels[1]
           lsbInfo == analyzeLSB(imageData)
           result == Combine(handlers[i].tailInfo[1], lsbInfo)
       IN  /\ handlers' = [handlers EXCEPT ![i].imageData = Some(imageData),
                                           ![i].lsbInfo = Some(lsbInfo),
                                           ![i].result = Some(result),
                                           ![i].pc = "done"]
           /\ reportEl' = [display |-> "block",
                           innerHTML |-> Report(handlers[i].file, result)]
    /\ statusEl' = Empty
    /\ UNCHANGED <<arg, ret>>

\* img.onerror at line 201.
ImageError(i) ==
    /\ i <= Len(handlers)
    /\ handlers[i].pc = "loadImage"
    /\ handlers[i].file.pixels = None
    /\ handlers' = [handlers EXCEPT ![i].pc = "rejected", ![i].error = Some("loadImage")]
    /\ UNCHANGED <<statusEl, reportEl, arg, ret>>

\* One step of some running analysis.
Step ==
    \E i \in 1..MaxChanges :
        \/ ArrayBufferLoaded(i)
        \/ ArrayBufferError(i)
        \/ DataURLLoaded(i)
        \/ DataURLError(i)
        \/ ImageLoaded(i)
        \/ ImageError(i)

PageLoaded ==
    /\ statusEl = Initial
    /\ reportEl = [display |-> "initial", innerHTML |-> Initial]
    /\ arg = None
    /\ ret = None

Init ==
    /\ handlers = <<>>
    /\ PageLoaded

Next ==
    \/ \E file \in Files : Change(file)
    \/ ChangeNoFile
    \/ Step

\* The page: any number of selections, their analyses interleaved.
Spec == Init /\ [][Next]_vars

\* One analysis, of a file picked from `files`, from its first await on.
OneAnalysis(files) ==
    \E file \in files :
        /\ handlers = <<Started(file)>>
        /\ statusEl = Analyzing(file)
        /\ reportEl = [display |-> "none", innerHTML |-> Initial]
        /\ arg = None
        /\ ret = None

InitTail == OneAnalysis(TailFiles)
SpecTail == InitTail /\ [][Step]_vars

InitImage == OneAnalysis(ImageFiles)
SpecImage == InitImage /\ [][Step]_vars

-----------------------------------------------------------------------------
(* Direct calls of the analyser functions *)

Idle ==
    /\ handlers = <<>>
    /\ statusEl = Initial
    /\ reportEl = [display |-> "initial", innerHTML |-> Initial]
    /\ ret = None

CallFindSignature ==
    /\ ret = None
    /\ ret' = Some(findSignature(arg))
    /\ UNCHANGED <<handlers, statusEl, reportEl, arg>>

InitSig == Idle /\ arg \in SigInputs
SpecSig == InitSig /\ [][CallFindSignature]_vars

CallAnalyzeLSB ==
    /\ ret = None
    /\ ret' = Some(analyzeLSB(arg))
    /\ UNCHANGED <<handlers, statusEl, reportEl, arg>>

InitLSB == Idle /\ arg \in LSBGrids
SpecLSB == InitLSB /\ [][CallAnalyzeLSB]_vars

\* The combination of lines 73-92 on sub-results of every pair of scores.
SubResults ==
    {[tailInfo |-> [score |-> t, summary |-> NoTailSummary],
      lsbInfo |-> [score |-> Num(l),
                   summary |-> [balance |-> Num(l), lsb0 |-> 0, lsb1 |-> 0]]] :
        t \in 0..100, l \in 0..100}

CallCombine ==
    /\ ret = None
    /\ ret' = Some(Combine(arg.tailInfo, arg.lsbInfo))
    /\ UNCHANGED <<handlers, statusEl, reportEl, arg>>

InitAgg == Idle /\ arg \in SubResults
SpecAgg == InitAgg /\ [][CallCombine]_vars

-----------------------------------------------------------------------------
(* Claims about analyzeLSB, under SpecLSB *)

\* The samples of the first three channels of every pixel whose low bit is b.
CountedSamples(data, b) ==
    {k \in 1..Len(data) : (k - 1) % 4 # 3 /\ data[k] % 2 = b}

\* s is the integer nearest to p / q (q > 0), halves upward.
Nearest(s, p, q) == 2 * q * s <= 2 * p + q /\ 2 * q * s > 2 * p - q

\* The grid with every alpha sample and the upper seven bits of every other
\* sample inverted.
Twin(data) ==
    [k \in 1..Len(data) |->
        IF (k - 1) % 4 = 3 THEN 255 - data[k]
        ELSE 254 - data[k] + 2 * (data[k] % 2)]

\* C1: on an empty grid analyzeLSB returns the sub-score 0, and on every grid
\* its sub-score is a number in 0..100.
C1_EmptyGridScoresZero ==
    ret # None =>
        /\ ~ret[1].score.nan
        /\ ret[1].score.val \in 0..100
        /\ arg = <<>> => ret[1].score.val = 0

\* C6: on a non-empty grid analyzeLSB counts three samples per pixel, the low
\* bits of the first three channels; its sub-score is the integer nearest to
\* (1 - |zeros - ones| / total) * 100, capped at 100; a grid that differs only
\* in alpha samples and upper bits gets the same sub-score; all-zero samples
\* score 0 and an even split scores 100.
C6_LSBScoreFromLowBits ==
    (ret # None /\ Len(arg) > 0) =>
        LET zeros == Cardinality(CountedSamples(arg, 0))
            ones == Cardinality(CountedSamples(arg, 1))
            total == zeros + ones
            r == ret[1]
        IN  /\ r.summary.lsb0 = zeros
            /\ r.summary.lsb1 = ones
            /\ total = 3 * (Len(arg) \div 4)
            /\ ~r.score.nan
            /\ r.score.val \in 0..100
            /\ Nearest(r.score.val, 100 * (total - Abs(zeros - ones)), total)
            /\ analyzeLSB(Twin(arg)).score = r.score
            /\ (\A k \in 1..Len(arg) : arg[k] = 0) => r.score.val = 0
            /\ zeros = ones => r.score.val = 100

\* C6's case: a two-pixel grid whose six counted samples split three to three,
\* with alpha samples and upper bits set, has been scored 100.
C6_Witness ==
    /\ ret # None
    /\ Len(arg) = 8
    /\ Cardinality(CountedSamples(arg, 0)) = 3
    /\ Cardinality(CountedSamples(arg, 1)) = 3
    /\ \E k \in 1..Len(arg) : arg[k] > 1
    /\ ret[1].score = Num(100)

-----------------------------------------------------------------------------
(* Claims about findSignature, under SpecSig *)

\* Table entry k is found byte for byte at offset i of data.
EntryAt(data, i, k) ==
    /\ i + Len(sigs[k].bytes) <= Len(data)
    /\ SubSeq(data, i + 1, i + Len(sigs[k].bytes)) = sigs[k].bytes

\* The offsets in [0, len - 8) at which some table entry is found.
MatchOffsets(data) ==
    {i \in 0..(Len(data) - 9) : \E k \in 1..Len(sigs) : EntryAt(data, i, k)}

SetMin(S) == CHOOSE x \in S : \A y \in S : x <= y
SetMax(S) == CHOOSE x \in S : \A y \in S : x >= y

\* C3: findSignature returns the name of the first table entry found at the
\* lowest offset in [0, len - 8) at which any entry is found, and null when
\* there is no such offset (so for every input shorter than 8 bytes); ZIP's
\* bytes at offset 10, the first match, with room behind them give "ZIP".
C3_FirstEntryAtLowestOffset ==
    ret # None =>
        LET offs == MatchOffsets(arg)
        IN  /\ offs = {} => ret[1] = Null
            /\ offs # {} =>
                  LET i0 == SetMin(offs)
                      k0 == SetMin({k \in 1..Len(sigs) : EntryAt(arg, i0, k)})
                  IN  ret[1] = sigs[k0].name
            /\ Len(arg) < 8 => ret[1] = Null
            /\ (offs # {} /\ SetMin(offs) = 10 /\ EntryAt(arg, 10, 1))
                  => ret[1] \in {"ZIP", "APK"}

\* C3's case: 50 4B 03 04 at offset 10 of a buffer with unrelated bytes before
\* and after it has been reported as ZIP.
C3_Witness ==
    /\ ret = Some("ZIP")
    /\ Len(arg) >= 19
    /\ SubSeq(arg, 11, 14) = <<80, 75, 3, 4>>
    /\ \A k \in 1..10 : arg[k] = 0

-----------------------------------------------------------------------------
(* Claims about the score combination, under SpecAgg *)

\* C4: for sub-scores t and l in 0..100 the aggregate score is the integer
\* nearest to 0.6 t + 0.4 l, capped at 100 and within 0..100; the level is
\* alert exactly from 60 on, warn exactly from 30 to 59, safe exactly below 30;
\* (100,100) gives 100 alert, (0,0) gives 0 safe, (50,50) gives 50 warn.
C4_ScoreAndLevel ==
    ret # None =>
        LET t == arg.tailInfo.score
            l == arg.lsbInfo.score.val
            r == ret[1]
            s == r.score.val
        IN  /\ ~r.score.nan
            /\ s \in 0..100
            /\ \E x \in 0..200 : Nearest(x, 6 * t + 4 * l, 10) /\ s = Min(100, x)
            /\ r.level \in {"alert", "warn", "safe"}
            /\ r.level = "alert" <=> s >= 60
            /\ r.level = "warn" <=> (s >= 30 /\ s < 60)
            /\ r.level = "safe" <=> s < 30
            /\ (t = 100 /\ l = 100) => (s = 100 /\ r.level = "alert")
            /\ (t = 0 /\ l = 0) => (s = 0 /\ r.level = "safe")
            /\ (t = 50 /\ l = 50) => (s = 50 /\ r.level = "warn")

\* C4's case: sub-scores whose combination is exactly 60 have been combined
\* to the level alert.
C4_Witness ==
    /\ ret # None
    /\ arg.tailInfo.score = 80
    /\ arg.lsbInfo.score.val = 30
    /\ ret[1].score = Num(60)
    /\ ret[1].level = "alert"

-----------------------------------------------------------------------------
(* Claims about the tail, under SpecTail *)

\* The end offset the claims describe: for a buffer that starts FF D8 FF, two
\* past the last FF D9; for one that starts 89 50 4E 47, twelve past the largest
\* i <= len - 12 with "IEND" at i + 4; -1 when there is no marker or the buffer
\* starts otherwise.
MarkerEnd(b) ==
    IF Len(b) >= 3 /\ SubSeq(b, 1, 3) = <<255, 216, 255>>
    THEN LET at == {i \in 0..(Len(b) - 2) : SubSeq(b, i + 1, i + 2) = <<255, 217>>}
         IN  IF at = {} THEN -1 ELSE SetMax(at) + 2
    ELSE IF Len(b) >= 4 /\ SubSeq(b, 1, 4) = <<137, 80, 78, 71>>
    THEN LET at == {i \in 0..(Len(b) - 12) : SubSeq(b, i + 5, i + 8) = IENDTag}
         IN  IF at = {} THEN -1 ELSE SetMax(at) + 12
    ELSE -1

\* The bytes after that offset when it lies strictly inside the buffer.
BytesAfterMarker(b) ==
    IF MarkerEnd(b) > 0 /\ MarkerEnd(b) < Len(b)
    THEN SubSeq(b, MarkerEnd(b) + 1, Len(b))
    ELSE <<>>

\* C5: the tail analyzeImage extracts is the bytes after the end marker closest
\* to the buffer's end (JPEG: FF D9, end offset index + 2; PNG: "IEND" at i + 4
\* for the largest i <= len - 12, end offset i + 12; other prefixes: none); its
\* length is len - eofOffset when 0 < eofOffset < len and zero otherwise.
C5_TailAfterLastMarker ==
    \A i \in 1..Len(handlers) :
        handlers[i].tail # None =>
            LET b == handlers[i].file.bytes
                tail == handlers[i].tail[1]
            IN  /\ tail = BytesAfterMarker(b)
                /\ Len(tail) = IF MarkerEnd(b) > 0 /\ MarkerEnd(b) < Len(b)
                               THEN Len(b) - MarkerEnd(b) ELSE 0

\* C5's case: a buffer with two end markers behind a PNG or JPEG prefix and
\* bytes after the second marker has had its tail extracted.
C5_Witness ==
    \E i \in 1..Len(handlers) :
        /\ handlers[i].tail # None
        /\ handlers[i].tail[1] # <<>>
        /\ LET b == handlers[i].file.bytes
               end == Len(b) - Len(handlers[i].tail[1])
           IN  \/ /\ isPNG(b)
                  /\ \E j \in 4..(end - 12) : SubSeq(b, j + 1, j + 4) = IENDTag
               \/ /\ isJPG(b)
                  /\ \E j \in 3..(end - 4) : SubSeq(b, j + 1, j + 2) = <<255, 217>>

\* The printable ASCII sequences x with which a file's content is a well-formed
\* PNG followed by x.
AppendedTo(b) ==
    {x \in ExtraBytes : \E png \in WellFormedPNGs : b = png \o x}

\* The text "IEND" occurs in x with at least four bytes behind it.
HasTagBeforeEnd(x) ==
    \E p \in 0..(Len(x) - 8) : SubSeq(x, p + 1, p + 4) = IENDTag

\* C2 as stated: a well-formed PNG that ends with its IEND chunk has an empty
\* tail and tail sub-score 0; with k >= 1 ASCII bytes appended the tail is
\* exactly those bytes, and for k = 200 the tail sub-score is at least 50.
C2_TailIsTheAppendedBytes ==
    \A i \in 1..Len(handlers) :
        handlers[i].tailInfo # None =>
            \A x \in AppendedTo(handlers[i].file.bytes) :
                /\ handlers[i].tail[1] = x
                /\ Len(x) = 0 => handlers[i].tailInfo[1].score = 0
                /\ Len(x) = 200 => /\ Len(handlers[i].tail[1]) = 200
                                   /\ handlers[i].tailInfo[1].score >= 50

\* C2 amended: the same, for appended bytes in which the text "IEND" does not
\* occur with four or more bytes behind it.
C2_TailIsTheAppendedBytesWithoutTag ==
    \A i \in 1..Len(handlers) :
        handlers[i].tailInfo # None =>
            \A x \in AppendedTo(handlers[i].file.bytes) :
                ~HasTagBeforeEnd(x) =>
                    /\ handlers[i].tail[1] = x
                    /\ Len(x) = 0 => handlers[i].tailInfo[1].score = 0
                    /\ Len(x) = 200 => /\ Len(handlers[i].tail[1]) = 200
                                       /\ handlers[i].tailInfo[1].score >= 50

\* C2's case: 200 printable bytes appended to a well-formed PNG have been
\* extracted as the tail and scored.
C2_Witness ==
    \E i \in 1..Len(handlers) :
        /\ handlers[i].tailInfo # None
        /\ \E x \in AppendedTo(handlers[i].file.bytes) : Len(x) = 200
        /\ Len(handlers[i].tail[1]) = 200
        /\ handlers[i].tailInfo[1].score = 50

-----------------------------------------------------------------------------
(* Claims about the whole analysis, under SpecImage *)

\* C10: when the tail region is empty (unknown format, no end marker, or no
\* bytes after the end marker) the aggregate score is at most 40 and the level
\* is not alert, whatever the pixels; and when the LSB sub-score is 0 the level
\* is alert only if the tail sub-score is 100.
C10_EmptyTailNeverAlerts ==
    \A i \in 1..Len(handlers) :
        handlers[i].result # None =>
            LET r == handlers[i].result[1]
            IN  /\ BytesAfterMarker(handlers[i].file.bytes) = <<>> =>
                      /\ ~r.score.nan
                      /\ r.score.val <= 40
                      /\ r.level # "alert"
                /\ (handlers[i].lsbInfo[1].score = Num(0) /\ r.level = "alert") =>
                      handlers[i].tailInfo[1].score = 100

\* C10's case: a file without a tail whose pixels' low bits split evenly has
\* been analysed, to the score 40.
C10_Witness ==
    \E i \in 1..Len(handlers) :
        /\ handlers[i].result # None
        /\ BytesAfterMarker(handlers[i].file.bytes) = <<>>
        /\ handlers[i].lsbInfo[1].score = Num(100)
        /\ handlers[i].result[1].score = Num(40)
        /\ handlers[i].result[1].level = "warn"

\* The second case of C10: an alert with LSB sub-score 0.
C10_AlertWithEvenPixels ==
    \E i \in 1..Len(handlers) :
        /\ handlers[i].result # None
        /\ handlers[i].lsbInfo[1].score = Num(0)
        /\ handlers[i].result[1].level = "alert"

-----------------------------------------------------------------------------
(* Claims about the page, under Spec *)

\* C7: no core computation (end-marker search, tail scoring, LSB scoring, score
\* combination) has happened in an analysis before both its acquisitions, the
\* byte buffer and the decoded pixel grid, have completed.
C7_CoreAfterBothAcquisitions ==
    \A i \in 1..Len(handlers) :
        (\/ handlers[i].tail # None
         \/ handlers[i].tailInfo # None
         \/ handlers[i].lsbInfo # None
         \/ handlers[i].result # None)
            => (handlers[i].ab # None /\ handlers[i].imageData # None)

\* No analysis is awaiting a read or a decode.
Quiescent == \A i \in 1..Len(handlers) : ~Pending(handlers[i])

\* C8: a failed read or decode is surfaced before any core analysis has run:
\* no analysis has reached tail or LSB analysis and then ended in a failure, and
\* once nothing is pending no failed analysis has left the page showing
\* "Analyzing" with no report displayed.
C8_FailureSurfacedBeforeCore ==
    \A i \in 1..Len(handlers) :
        handlers[i].pc = "rejected" =>
            /\ handlers[i].tailInfo = None
            /\ handlers[i].lsbInfo = None
            /\ ~(Quiescent /\ statusEl.kind = "analyzing" /\ reportEl.display # "block")

\* C9 (first half): once no analysis is pending and the most recently selected
\* file's analysis has completed, the displayed report is that file's.
C9_ReportOfLatestFile ==
    (Len(handlers) > 0 /\ Quiescent /\ handlers[Len(handlers)].pc = "done") =>
        /\ reportEl.display = "block"
        /\ reportEl.innerHTML =
              Report(handlers[Len(handlers)].file, handlers[Len(handlers)].result[1])

\* C9 (second half): no completing analysis clears the "Analyzing" status while
\* the analysis of a file selected after its own is pending.
C9_StatusKeptForLaterFile ==
    [][\A i \in 1..Len(handlers) :
          (handlers[i].pc # "done" /\ handlers'[i].pc = "done" /\ statusEl' = Empty)
              => \A j \in (i + 1)..Len(handlers) : ~Pending(handlers[j])]_vars

\* C9: analyses of successive selections do not interfere.
C9_SelectionsDoNotInterfere ==
    [](C9_ReportOfLatestFile) /\ C9_StatusKeptForLaterFile

====
